---- MODULE Spec2Model ----
(***************************************************************************)
(* Shattered Realms MUD: the session / world concurrency model and the     *)
(* command / NPC dispatch engine.                                           *)
(*                                                                          *)
(* The server is a single asyncio event loop.  Every ClientSession.handle   *)
(* coroutine and the _npc_loop coroutine is a process of this model.  A     *)
(* coroutine runs without interleaving until it awaits (a readline, the     *)
(* drain of a send_line, wait_closed, the tick's sleep).  The variable cur  *)
(* names the coroutine that holds the loop; it is None exactly when every   *)
(* coroutine is suspended in an await, and only then may another coroutine  *)
(* or a transport callback run.                                             *)
(***************************************************************************)
EXTENDS Integers, Sequences, FiniteSets, TLC

None == "none"
TickProc == "tick"

\* ------------------------------------------------------------- bounds
MaxCmds == 2      \* command lines read by all sessions together
MaxFails == 1     \* transports the environment may break
MaxTicks == 1     \* passes of npc_tick (no limit under LiveInit)
MaxPasses == 4    \* passes of npc_tick under NpcInit

\* The clients that may connect, in the order in which they do.
SessOrder == <<"s1", "s2">>

Sessions == {SessOrder[i] : i \in DOMAIN SessOrder}

Unlimited == 0 - 1

\* ------------------------------------------------------------- text
\* Names are sequences of characters, so that stripping and lowercasing are
\* computed the way _ask_name computes them.
Upper2Lower == [A |-> "a", E |-> "e", R |-> "r", G |-> "g", W |-> "w"]

LowerCh(c) == IF c \in DOMAIN Upper2Lower THEN Upper2Lower[c] ELSE c

Lower(str) == [i \in DOMAIN str |-> LowerCh(str[i])]

Alnum ==
    {"A", "E", "R", "G", "W",
     "a", "d", "e", "g", "i", "n", "r", "t", "u", "w", "z"}

IsAlnum(c) == c \in Alnum

StripAlnum(str) == SelectSeq(str, IsAlnum)

NameMax == 16

Take(str, n) == IF Len(str) <= n THEN str ELSE SubSeq(str, 1, n)

SanitizeName(raw) == Take(StripAlnum(raw), NameMax)

StartsWith(str, prefix) ==
    /\ Len(prefix) <= Len(str)
    /\ SubSeq(str, 1, Len(prefix)) = prefix

Ari == <<"A", "r", "i">>
AriBang == <<"a", "r", "i", "!">>
Eddie == <<"E", "d", "d", "i", "e">>
Bang == <<"!">>
Wanderer == <<"W", "a", "n", "d", "e", "r", "e", "r">>

\* The lines a client may type at the name prompt.
RawNames == {Ari, AriBang, Eddie, Bang}

AdminNames ==
    { <<"e", "d", "d", "i", "e">>,
      <<"m", "r", "_", "y", "t">>,
      <<"m", "r", "y", "t">> }

\* ------------------------------------------------------------- world
\* The rooms load_world produced: lobby has an exit to hall and a dangling
\* exit to a room that was never defined; no exit leads to the cellar.
Rooms == {"lobby", "hall", "cellar", "pit"}

Exits ==
    [lobby |-> [north |-> "hall", east |-> "void"],
     hall |-> [south |-> "lobby"],
     cellar |-> [up |-> "lobby"],
     pit |-> <<>>]

DIRECTION_ALIASES ==
    [n |-> "north", s |-> "south", e |-> "east",
     w |-> "west", u |-> "up", d |-> "down"]

VALID_DIRECTIONS == {"north", "south", "east", "west", "up", "down"}

DirAlpha == <<"down", "east", "north", "south", "up", "west">>

\* A faulty get_room: every room id is taken to exist.
RoomExistsAny(room_id) == TRUE

RoomExists(room_id) == room_id \in Rooms

RoomExits(room_id) == Exits[room_id]

HasExit(room_id, direction) == direction \in DOMAIN RoomExits(room_id)

InDirs(room_id) == [d \in VALID_DIRECTIONS |-> HasExit(room_id, d)]

SortedExits(room_id) ==
    SelectSeq(DirAlpha, LAMBDA d : InDirs(room_id)[d])

\* The NPCs load_npcs produced, in registry (insertion) order.
NpcIds == {"guard", "rat", "idol", "ghost", "bat", "mole", "wisp"}

NpcLoadOrder == <<"guard", "rat", "idol", "ghost", "bat", "mole", "wisp">>

NpcDefs ==
    [guard |-> [name |-> <<"G", "u", "a", "r", "d">>,
                idchars |-> <<"g", "u", "a", "r", "d">>,
                room |-> "hall", tethered |-> TRUE,
                wander_mode |-> "path",
                wander_path |-> <<"lobby", "hall">>],
     rat |-> [name |-> <<"R", "a", "t">>,
              idchars |-> <<"r", "a", "t">>,
              room |-> "lobby", tethered |-> FALSE,
              wander_mode |-> "path",
              wander_path |-> <<"hall", "cellar", "lobby">>],
     idol |-> [name |-> <<"b", "a", "t", "t", "y">>,
               idchars |-> <<"i", "d", "o", "l">>,
               room |-> "cellar", tethered |-> FALSE,
               wander_mode |-> "NONE",
               wander_path |-> <<"lobby">>],
     ghost |-> [name |-> <<"G", "h", "o", "s", "t">>,
                idchars |-> <<"g", "h", "o", "s", "t">>,
                room |-> "cellar", tethered |-> FALSE,
                wander_mode |-> "Path",
                wander_path |-> <<"void", "hall">>],
     bat |-> [name |-> <<"W", "i", "n", "g">>,
              idchars |-> <<"b", "a", "t">>,
              room |-> "hall", tethered |-> FALSE,
              wander_mode |-> "global",
              wander_path |-> <<>>],
     mole |-> [name |-> <<"m", "o", "l", "e">>,
               idchars |-> <<"m", "o", "l", "e">>,
               room |-> "pit", tethered |-> FALSE,
               wander_mode |-> "global",
               wander_path |-> <<>>],
     wisp |-> [name |-> <<"w", "i", "s", "p">>,
               idchars |-> <<"w", "i", "s", "p">>,
               room |-> "void", tethered |-> FALSE,
               wander_mode |-> "global",
               wander_path |-> <<>>]]

\* str.lower() on the wander modes of the definitions
ModeLower == [NONE |-> "none", Path |-> "path"]

\* npc_tick: "mode = (npc.wander_mode or "none").lower()"
ModeOf(n) ==
    LET m == NpcDefs[n].wander_mode IN
    IF m = "" THEN "none"
    ELSE IF m \in DOMAIN ModeLower THEN ModeLower[m] ELSE m

\* A faulty npc_tick: the tethered flag is not looked at.
StaysPutUntethered(n) == ModeOf(n) = "none"

\* npc_tick: the two "continue" tests
StaysPut(n) == NpcDefs[n].tethered \/ ModeOf(n) = "none"

\* ------------------------------------------------------------- state
VARIABLES
    players,    \* World.players: insertion-ordered dict key -> Player, as a
                \* sequence of [k, v]; v is the session that owns the Player
    sessions,   \* World.sessions: key -> session, as a sequence of [k, v]
    npcs,       \* World.npcs: the NPC ids in the registry, insertion order
    npc,        \* the NPC objects: room_id and wander_index of each
    player,     \* session.player and the fields of that Player object
    pc,         \* the statement each session's handle() executes next
    loc,        \* the local variables of the running handler of each session
                \* (left: history, the sessions told so far that a move
                \* is leaving their room)
    failed,     \* connection_lost has been called on the session's transport
    closed,     \* writer.close() has been called
    tick,       \* _npc_loop / npc_tick: position and locals
    cur,        \* the coroutine holding the event loop, None at an await
    ev,         \* what the last step sent or raised
    eof,        \* the session's StreamReader has been fed end-of-stream
    budget      \* what the environment may still do: connections, command
                \* lines, transport failures, tick passes

vars ==
    <<players, sessions, npcs, npc, player, pc, loc, failed, closed, tick,
      cur, ev, eof, budget>>

NoPlayer == [name |-> <<>>, room_id |-> None, role |-> None]

LocInit ==
    [snap |-> <<>>, direction |-> None, dest |-> None, room |-> None,
     name |-> <<>>, eof |-> FALSE, target |-> None, left |-> {}]

TickInit ==
    [pc |-> "sleeping", todo |-> <<>>, npc |-> None, snap |-> <<>>,
     dest |-> None, old |-> None]

\* A step that sends nothing and raises nothing.
NoEv(by) ==
    [by |-> None, to |-> None, kind |-> None, about |-> None,
     cause |-> None, res |-> None, cmd |-> None]

Ev(by, to, kind, about, cause, res, cmd) ==
    [by |-> by, to |-> to, kind |-> kind, about |-> about,
     cause |-> cause, res |-> res, cmd |-> cmd]

InitWorld ==
    /\ players = <<>>
    /\ sessions = <<>>
    /\ npcs = NpcLoadOrder
    /\ npc = [n \in NpcIds |->
                [room_id |-> NpcDefs[n].room, wander_index |-> 0]]
    /\ player = [s \in Sessions |-> NoPlayer]
    /\ pc = [s \in Sessions |-> "idle"]
    /\ loc = [s \in Sessions |-> LocInit]
    /\ failed = [s \in Sessions |-> FALSE]
    /\ closed = [s \in Sessions |-> FALSE]
    /\ tick = TickInit
    /\ cur = None
    /\ ev = NoEv(None)
    /\ eof = [s \in Sessions |-> FALSE]

\* What the environment does in a run: either the clients type commands
\* while the tick sleeps, or the tick runs while the clients only log in
\* and leave.
Budgets ==
    { [conns |-> Len(SessOrder), cmds |-> MaxCmds, fails |-> MaxFails,
       ticks |-> 0],
      [conns |-> Len(SessOrder), cmds |-> 0, fails |-> 0,
       ticks |-> MaxTicks] }

\* The server has started and no client has connected yet.
Init ==
    /\ InitWorld
    /\ budget \in Budgets

\* The same server with one client and a tick that is never switched off.
LiveInit ==
    /\ InitWorld
    /\ budget = [conns |-> 1, cmds |-> MaxCmds, fails |-> MaxFails,
                 ticks |-> Unlimited]

\* The same server with one client that types one command, and a counted
\* number of passes of the tick.
NpcInit ==
    /\ InitWorld
    /\ budget = [conns |-> 1, cmds |-> 1, fails |-> MaxFails,
                 ticks |-> MaxPasses]

\* The same server with either two clients that type one command each and
\* no tick, or one client and a tick that is never switched off.
StallInit ==
    /\ InitWorld
    /\ budget \in {[conns |-> 2, cmds |-> 1, fails |-> 0, ticks |-> 0],
                   [conns |-> 1, cmds |-> 1, fails |-> MaxFails,
                    ticks |-> Unlimited]}

\* ------------------------------------------------------------- registry
Keys(dict) == {dict[i].k : i \in DOMAIN dict}

DictGet(dict, key) ==
    LET i == CHOOSE j \in DOMAIN dict : dict[j].k = key IN dict[i].v

DictSet(dict, key, val) ==
    IF key \in Keys(dict)
    THEN [i \in DOMAIN dict |->
            IF dict[i].k = key THEN [k |-> key, v |-> val] ELSE dict[i]]
    ELSE Append(dict, [k |-> key, v |-> val])

DictPop(dict, key) == SelectSeq(dict, LAMBDA e : e.k # key)

Values(dict) == [i \in DOMAIN dict |-> dict[i].v]

add_player(dict, name, owner) == DictSet(dict, Lower(name), owner)

\* A faulty remove_player: the Player entry is left behind at disconnect.
remove_player_kept(dict, name) == dict

remove_player(dict, name) == DictPop(dict, Lower(name))

add_session(dict, name, sess) == DictSet(dict, Lower(name), sess)

remove_session(dict, name) == DictPop(dict, Lower(name))

\* ClientSession.room_id, read through the Player objects pl
room_id(pl, s) == IF pl[s] = NoPlayer THEN "lobby" ELSE pl[s].room_id

\* A faulty sessions_in_room: every session, whatever its room.
sessions_everywhere(dict, pl, room) == Values(dict)

sessions_in_room(dict, pl, room) ==
    SelectSeq(Values(dict), LAMBDA s : room_id(pl, s) = room)

npcs_in_room(room) == SelectSeq(npcs, LAMBDA n : npc[n].room_id = room)

\* "if other is self: continue" of the notify loops
Others(snap, s) == SelectSeq(snap, LAMBDA o : o # s)

\* ------------------------------------------------------------- transport
\* send_line writes to the transport and awaits drain(): drain raises
\* ConnectionResetError once connection_lost has been called; after close()
\* the callback may or may not have run yet.
Outcomes(to) ==
    IF failed[to] THEN {"raised"}
    ELSE IF closed[to] THEN {"raised", "dropped"}
    ELSE {"sent"}

Run(p) == cur \in {None, p}

InFinally(s) == pc[s] \in {"finally", "td_leave", "td_wait"}

\* Where an exception raised at the current statement of s lands: in the
\* finally block of handle(), or out of handle() when already in it.
RaisePc(s) == IF InFinally(s) THEN "crashed" ELSE "finally"

RaiseCur(s) == IF InFinally(s) THEN None ELSE s

\* A faulty send_line: the sender keeps the event loop while it waits for
\* the line to drain.
SendHolding(s, to, kind, about, cause, cmd, okpc) ==
    \E r \in Outcomes(to) :
        /\ ev' = Ev(s, to, kind, about, cause, r, cmd)
        /\ IF r = "raised"
           THEN /\ pc' = [pc EXCEPT ![s] = RaisePc(s)]
                /\ cur' = RaiseCur(s)
           ELSE /\ pc' = [pc EXCEPT ![s] = okpc]
                /\ cur' = s

\* s sends one line to session `to` and continues at okpc.
Send(s, to, kind, about, cause, cmd, okpc) ==
    \E r \in Outcomes(to) :
        /\ ev' = Ev(s, to, kind, about, cause, r, cmd)
        /\ IF r = "raised"
           THEN /\ pc' = [pc EXCEPT ![s] = RaisePc(s)]
                /\ cur' = RaiseCur(s)
           ELSE /\ pc' = [pc EXCEPT ![s] = okpc]
                /\ cur' = None

\* s raises an exception that is not a send failure.
Raise(s, what, cmd) ==
    /\ ev' = Ev(s, None, what, None, None, "raised", cmd)
    /\ pc' = [pc EXCEPT ![s] = RaisePc(s)]
    /\ cur' = RaiseCur(s)

\* s goes on to statement p without awaiting.
Goto(s, p) ==
    /\ ev' = NoEv(s)
    /\ pc' = [pc EXCEPT ![s] = p]
    /\ cur' = s

GotoCmd(s, p, cmd) ==
    /\ ev' = [NoEv(s) EXCEPT !.by = s, !.cmd = cmd]
    /\ pc' = [pc EXCEPT ![s] = p]
    /\ cur' = s

\* s returns to the readline of the command loop.
Return(s) ==
    /\ ev' = NoEv(s)
    /\ pc' = [pc EXCEPT ![s] = "loop_read"]
    /\ cur' = None

SetLoc(s, rec) == loc' = [loc EXCEPT ![s] = rec]

SetSnap(s, snap) == loc' = [loc EXCEPT ![s].snap = snap]

\* ------------------------------------------------------------- connect
\* _client_connected: a client connects and its handle() task is created.
Connect(s) ==
    /\ cur = None
    /\ pc[s] = "idle"
    /\ budget.conns > 0
    /\ \A i \in DOMAIN SessOrder :
          SessOrder[i] = s => \A j \in 1..(i - 1) : pc[SessOrder[j]] # "idle"
    /\ budget' = [budget EXCEPT !.conns = @ - 1]
    /\ pc' = [pc EXCEPT ![s] = "banner1"]
    /\ ev' = NoEv("env")
    /\ UNCHANGED <<players, sessions, npcs, npc, player, loc, failed,
                   closed, tick, cur, eof>>

\* The straight-line sends of handle() and _ask_name() to the own client.
Line ==
    [banner1 |-> [kind |-> "banner", next |-> "banner2"],
     banner2 |-> [kind |-> "void_wind", next |-> "banner3"],
     banner3 |-> [kind |-> "blank", next |-> "ask1"],
     ask1 |-> [kind |-> "ask_name", next |-> "ask2"],
     ask2 |-> [kind |-> "prompt", next |-> "name_read"],
     welcome1 |-> [kind |-> "welcome", next |-> "welcome2"],
     welcome2 |-> [kind |-> "help", next |-> "welcome3"],
     welcome3 |-> [kind |-> "blank", next |-> "ql_name"]]

SelfLine(s) ==
    /\ Run(s)
    /\ pc[s] \in DOMAIN Line
    /\ Send(s, s, Line[pc[s]].kind, None, "self", None, Line[pc[s]].next)
    /\ UNCHANGED <<players, sessions, npcs, npc, player, loc, failed,
                   closed, tick, eof, budget>>

\* A faulty lookup: the name is looked up without lowercasing it.
NameInUseExact(name) == name \in Keys(players)

\* "key in self.world.players"
NameInUse(name) == Lower(name) \in Keys(players)

\* handle(): Player(name, "lobby"), the admin names, add_player,
\* add_session and the snapshot of the arrival notices.
Register(s, name, atEof) ==
    LET role == IF Lower(name) \in AdminNames THEN "admin" ELSE "unset"
        pl == [player EXCEPT
                 ![s] = [name |-> name, room_id |-> "lobby", role |-> role]]
        ss == add_session(sessions, name, s)
    IN  /\ player' = pl
        /\ players' = add_player(players, name, s)
        /\ sessions' = ss
        /\ SetLoc(s, [LocInit EXCEPT
                        !.name = name, !.eof = atEof,
                        !.snap = Others(sessions_in_room(ss, pl,
                                            room_id(pl, s)), s)])
        /\ Goto(s, "login_notify")

\* readline() at the name prompt returns end-of-stream.
NameEof(s) ==
    /\ cur = None
    /\ pc[s] = "name_read"
    /\ Register(s, Wanderer, TRUE)
    /\ eof' = [eof EXCEPT ![s] = TRUE]
    /\ UNCHANGED <<npcs, npc, failed, closed, tick, budget>>

\* readline() at the name prompt returns a line.
NameLine(s, raw) ==
    /\ cur = None
    /\ pc[s] = "name_read"
    /\ ~failed[s]
    /\ ~eof[s]
    /\ LET name == SanitizeName(raw) IN
       IF name = <<>>
       THEN /\ Send(s, s, "hollow", None, "name", None, "ask1")
            /\ SetLoc(s, [LocInit EXCEPT !.name = name])
            /\ UNCHANGED <<players, sessions, player>>
       ELSE IF NameInUse(name)
       THEN /\ Send(s, s, "in_use", None, "name", None, "ask1")
            /\ SetLoc(s, [LocInit EXCEPT !.name = name])
            /\ UNCHANGED <<players, sessions, player>>
       ELSE Register(s, name, FALSE)
    /\ UNCHANGED <<npcs, npc, failed, closed, tick, eof, budget>>

\* readline() raises the transport's error.
ReadError(s) ==
    /\ cur = None
    /\ pc[s] \in {"name_read", "loop_read"}
    /\ failed[s]
    /\ Raise(s, "ConnectionResetError", None)
    /\ UNCHANGED <<players, sessions, npcs, npc, player, loc, failed,
                   closed, tick, eof, budget>>

\* "Notify others already in this room (lobby on login)"
LoginNotify(s) ==
    /\ Run(s)
    /\ pc[s] = "login_notify"
    /\ IF loc[s].snap # <<>>
       THEN /\ Send(s, Head(loc[s].snap), "enters", s, "login", None,
                    "login_notify")
            /\ SetSnap(s, Tail(loc[s].snap))
       ELSE /\ Goto(s, "welcome1")
            /\ SetLoc(s, LocInit)
    /\ UNCHANGED <<players, sessions, npcs, npc, player, failed, closed,
                   tick, eof, budget>>

\* ------------------------------------------------------------- quicklook
QlName(s) ==
    /\ Run(s)
    /\ pc[s] = "ql_name"
    /\ IF RoomExists(room_id(player, s))
       THEN Send(s, s, "room_name", room_id(player, s), "look", None,
                 "ql_brief")
       ELSE Raise(s, "KeyError", None)
    /\ UNCHANGED <<players, sessions, npcs, npc, player, loc, failed,
                   closed, tick, eof, budget>>

QlBrief(s) ==
    /\ Run(s)
    /\ pc[s] = "ql_brief"
    /\ Send(s, s, "brief", room_id(player, s), "look", None, "ql_occ")
    /\ UNCHANGED <<players, sessions, npcs, npc, player, loc, failed,
                   closed, tick, eof, budget>>

\* _show_room_occupants: the other players
QlOcc(s) ==
    /\ Run(s)
    /\ pc[s] = "ql_occ"
    /\ LET here == Others(sessions_in_room(sessions, player,
                              room_id(player, s)), s)
           other_players == SelectSeq(here, LAMBDA o : player[o] # NoPlayer)
       IN  IF other_players # <<>>
           THEN Send(s, s, "also_here", None, "look", None, "ql_npcs")
           ELSE Goto(s, "ql_npcs")
    /\ UNCHANGED <<players, sessions, npcs, npc, player, loc, failed,
                   closed, tick, eof, budget>>

\* _show_room_occupants: the NPCs
QlNpcs(s) ==
    /\ Run(s)
    /\ pc[s] = "ql_npcs"
    /\ LET here == npcs_in_room(room_id(player, s)) IN
       IF here # <<>>
       THEN /\ Send(s, s, "you_notice", None, "look", None, "ql_npc_line")
            /\ SetSnap(s, here)
       ELSE /\ Goto(s, "ql_exits")
            /\ UNCHANGED loc
    /\ UNCHANGED <<players, sessions, npcs, npc, player, failed, closed,
                   tick, eof, budget>>

QlNpcLine(s) ==
    /\ Run(s)
    /\ pc[s] = "ql_npc_line"
    /\ IF loc[s].snap # <<>>
       THEN /\ Send(s, s, "npc_line", Head(loc[s].snap), "look", None,
                    "ql_npc_line")
            /\ SetSnap(s, Tail(loc[s].snap))
       ELSE /\ Goto(s, "ql_exits")
            /\ UNCHANGED loc
    /\ UNCHANGED <<players, sessions, npcs, npc, player, failed, closed,
                   tick, eof, budget>>

format_exits(room) ==
    IF DOMAIN RoomExits(room) = {}
    THEN <<"none">>
    ELSE <<"header">> \o SortedExits(room)

QlExits(s) ==
    /\ Run(s)
    /\ pc[s] = "ql_exits"
    /\ SetSnap(s, format_exits(room_id(player, s)))
    /\ Goto(s, "ql_exit_line")
    /\ UNCHANGED <<players, sessions, npcs, npc, player, failed, closed,
                   tick, eof, budget>>

QlExitLine(s) ==
    /\ Run(s)
    /\ pc[s] = "ql_exit_line"
    /\ IF loc[s].snap # <<>>
       THEN /\ Send(s, s, "exit_line", Head(loc[s].snap), "look", None,
                    "ql_exit_line")
            /\ SetSnap(s, Tail(loc[s].snap))
       ELSE /\ Return(s)
            /\ SetLoc(s, LocInit)
    /\ UNCHANGED <<players, sessions, npcs, npc, player, failed, closed,
                   tick, eof, budget>>

\* ------------------------------------------------------------- dispatch
\* A line arrives at the readline of the command loop.
CanRead(s) ==
    /\ cur = None
    /\ pc[s] = "loop_read"
    /\ ~failed[s]
    /\ ~eof[s]
    /\ budget.cmds > 0

DirVerbs == VALID_DIRECTIONS \cup DOMAIN DIRECTION_ALIASES

\* handle_command: "if verb in DIRECTION_ALIASES: verb = ..."
Resolve(verb) ==
    IF verb \in DOMAIN DIRECTION_ALIASES THEN DIRECTION_ALIASES[verb] ELSE verb

\* readline() in the command loop returns end-of-stream: break.
LoopEof(s) ==
    /\ cur = None
    /\ pc[s] = "loop_read"
    /\ GotoCmd(s, "finally", "eof")
    /\ eof' = [eof EXCEPT ![s] = TRUE]
    /\ UNCHANGED <<players, sessions, npcs, npc, player, loc, failed,
                   closed, tick, budget>>

\* An empty line: cmd_quicklook.
CmdEmpty(s) ==
    /\ CanRead(s)
    /\ budget' = [budget EXCEPT !.cmds = @ - 1]
    /\ GotoCmd(s, "ql_name", "empty")
    /\ UNCHANGED <<players, sessions, npcs, npc, player, loc, failed,
                   closed, tick, eof>>

\* A faulty error path: a missing exit ends the command loop.
MoveNoExitCloses(s, verb) ==
    /\ Send(s, s, "cant_go", None, "move", verb, "finally")
    /\ UNCHANGED <<player, loc>>

\* cmd_move: "if direction not in exits"
MoveNoExit(s, verb) ==
    /\ Send(s, s, "cant_go", None, "move", verb, "loop_read")
    /\ UNCHANGED <<player, loc>>

\* A faulty cmd_move: the room id is set before the old room is notified.
MoveBeginMutatesFirst(s, verb) ==
    LET rid == room_id(player, s)
        d == Resolve(verb)
        pl == [player EXCEPT ![s].room_id = RoomExits(rid)[d]]
    IN  /\ player' = pl
        /\ SetLoc(s, [LocInit EXCEPT
                        !.snap = Others(sessions_in_room(sessions, player,
                                                         rid), s),
                        !.direction = d,
                        !.dest = RoomExits(rid)[d],
                        !.room = rid])
        /\ GotoCmd(s, "mv_leave", verb)

\* cmd_move: the exit resolves; snapshot the old room for the leaves notices.
MoveBegin(s, verb) ==
    LET rid == room_id(player, s)
        d == Resolve(verb)
    IN  /\ SetLoc(s, [LocInit EXCEPT
                        !.snap = Others(sessions_in_room(sessions, player,
                                                         rid), s),
                        !.direction = d,
                        !.dest = RoomExits(rid)[d],
                        !.room = rid])
        /\ GotoCmd(s, "mv_leave", verb)
        /\ UNCHANGED player

\* A faulty cmd_move: the destination is not looked up before the move.
MoveUnchecked(s, verb) == MoveBegin(s, verb)

\* cmd_move: the destination of the exit is not a room (KeyError).
MoveDangling(s, verb) ==
    /\ Send(s, s, "resistance", None, "move", verb, "loop_read")
    /\ UNCHANGED <<player, loc>>

\* A faulty cmd_move: the destination of the exit is not looked up.
CmdMoveNoLookup(s, verb) ==
    /\ CanRead(s)
    /\ Resolve(verb) \in VALID_DIRECTIONS
    /\ budget' = [budget EXCEPT !.cmds = @ - 1]
    /\ LET rid == room_id(player, s) IN
       IF ~RoomExists(rid)
       THEN Raise(s, "KeyError", verb) /\ UNCHANGED <<player, loc>>
       ELSE IF ~HasExit(rid, Resolve(verb))
       THEN MoveNoExit(s, verb)
       ELSE MoveBegin(s, verb)
    /\ UNCHANGED <<players, sessions, npcs, npc, failed, closed, tick,
                   eof>>

CmdMove(s, verb) ==
    /\ CanRead(s)
    /\ Resolve(verb) \in VALID_DIRECTIONS
    /\ budget' = [budget EXCEPT !.cmds = @ - 1]
    /\ LET rid == room_id(player, s) IN
       IF ~RoomExists(rid)
       THEN Raise(s, "KeyError", verb) /\ UNCHANGED <<player, loc>>
       ELSE IF ~HasExit(rid, Resolve(verb))
       THEN MoveNoExit(s, verb)
       ELSE IF ~RoomExists(RoomExits(rid)[Resolve(verb)])
       THEN MoveDangling(s, verb)
       ELSE MoveBegin(s, verb)
    /\ UNCHANGED <<players, sessions, npcs, npc, failed, closed, tick,
                   eof>>

\* "session.room_id = dest_id" and the snapshot of the new room
MoveMutate(s) ==
    LET pl == [player EXCEPT ![s].room_id = loc[s].dest] IN
    /\ player' = (IF player[s] = NoPlayer THEN player ELSE pl)
    /\ SetSnap(s, Others(sessions_in_room(sessions, player',
                                          room_id(player', s)), s))
    /\ Goto(s, "mv_enter")

\* cmd_move: "Notify old room", then "Actually move"
MvLeave(s) ==
    /\ Run(s)
    /\ pc[s] = "mv_leave"
    /\ IF loc[s].snap # <<>>
       THEN /\ Send(s, Head(loc[s].snap), "leaves", s, "move", None,
                    "mv_leave")
            /\ loc' = [loc EXCEPT
                         ![s].snap = Tail(@),
                         ![s].left = @ \cup {Head(loc[s].snap)}]
            /\ UNCHANGED player
       ELSE MoveMutate(s)
    /\ UNCHANGED <<players, sessions, npcs, npc, failed, closed, tick,
                   eof, budget>>

\* cmd_move: "Notify new room"
MvEnter(s) ==
    /\ Run(s)
    /\ pc[s] = "mv_enter"
    /\ IF loc[s].snap # <<>>
       THEN /\ Send(s, Head(loc[s].snap), "enters", s, "move", None,
                    "mv_enter")
            /\ SetSnap(s, Tail(loc[s].snap))
       ELSE /\ Goto(s, "mv_go")
            /\ UNCHANGED loc
    /\ UNCHANGED <<players, sessions, npcs, npc, player, failed, closed,
                   tick, eof, budget>>

\* cmd_move: "You go <direction>.", then cmd_quicklook
MvGo(s) ==
    /\ Run(s)
    /\ pc[s] = "mv_go"
    /\ Send(s, s, "you_go", loc[s].direction, "move", None, "ql_name")
    /\ UNCHANGED <<players, sessions, npcs, npc, player, loc, failed,
                   closed, tick, eof, budget>>

\* The verb "ql": cmd_quicklook through the command table.
CmdQl(s) ==
    /\ CanRead(s)
    /\ budget' = [budget EXCEPT !.cmds = @ - 1]
    /\ GotoCmd(s, "ql_name", "ql")
    /\ UNCHANGED <<players, sessions, npcs, npc, player, loc, failed,
                   closed, tick, eof>>

\* handle_command: "verb = parts[0].lower()"
VerbLower == [QUIT |-> "quit", Stats |-> "stats"]

LowerVerb(v) == IF v \in DOMAIN VerbLower THEN VerbLower[v] ELSE v

\* cmd_stats: Player (models.py) declares no level, xp, hp or stamina, so
\* building the first lines raises AttributeError before anything is sent.
CmdStats(s, verb) ==
    /\ CanRead(s)
    /\ LowerVerb(verb) = "stats"
    /\ budget' = [budget EXCEPT !.cmds = @ - 1]
    /\ Raise(s, "AttributeError", verb)
    /\ UNCHANGED <<players, sessions, npcs, npc, player, loc, failed,
                   closed, tick, eof>>

\* cmd_role: "session.player.role"
CmdRole(s) ==
    /\ CanRead(s)
    /\ budget' = [budget EXCEPT !.cmds = @ - 1]
    /\ IF player[s] # NoPlayer /\ player[s].role = "unset"
       THEN Raise(s, "AttributeError", "role")
       ELSE Send(s, s, "your_role", None, "role", "role", "loop_read")
    /\ UNCHANGED <<players, sessions, npcs, npc, player, loc, failed,
                   closed, tick, eof>>

\* cmd_quit returns False: the loop breaks after the farewell line.
CmdQuit(s, verb) ==
    /\ CanRead(s)
    /\ LowerVerb(verb) \in {"quit", "exit"}
    /\ budget' = [budget EXCEPT !.cmds = @ - 1]
    /\ Send(s, s, "fade", None, "quit", verb, "finally")
    /\ UNCHANGED <<players, sessions, npcs, npc, player, loc, failed,
                   closed, tick, eof>>

\* cmd_say
CmdSay(s, hasArgs) ==
    /\ CanRead(s)
    /\ budget' = [budget EXCEPT !.cmds = @ - 1]
    /\ IF ~hasArgs
       THEN /\ Send(s, s, "say_what", None, "say", "say", "loop_read")
            /\ UNCHANGED loc
       ELSE /\ SetSnap(s, sessions_in_room(sessions, player,
                                           room_id(player, s)))
            /\ GotoCmd(s, "say_loop", "say")
    /\ UNCHANGED <<players, sessions, npcs, npc, player, failed, closed,
                   tick, eof>>

SayLoop(s) ==
    /\ Run(s)
    /\ pc[s] = "say_loop"
    /\ IF loc[s].snap # <<>>
       THEN /\ Send(s, Head(loc[s].snap),
                    IF Head(loc[s].snap) = s THEN "you_say" ELSE "says",
                    s, "say", None, "say_loop")
            /\ SetSnap(s, Tail(loc[s].snap))
       ELSE /\ Return(s)
            /\ UNCHANGED loc
    /\ UNCHANGED <<players, sessions, npcs, npc, player, failed, closed,
                   tick, eof, budget>>

\* handle_command: "handler is None"
CmdUnknown(s) ==
    /\ CanRead(s)
    /\ budget' = [budget EXCEPT !.cmds = @ - 1]
    /\ Send(s, s, "mutter", None, "unknown", "xyzzy", "loop_read")
    /\ UNCHANGED <<players, sessions, npcs, npc, player, loc, failed,
                   closed, tick, eof>>

\* ------------------------------------------------------------- admin
\* Player (models.py) declares name, room_id and is_admin only: the role
\* attribute exists once handle() or cmd_setrole has assigned it, and reading
\* it before that raises AttributeError ("unset").
RoleMissing(s) == player[s] # NoPlayer /\ player[s].role = "unset"

is_admin(s) == player[s] # NoPlayer /\ player[s].role = "admin"

\* A faulty role check: any word passes.
ValidRolesAny == {"player", "wizard", "gm", "admin", "king"}

ValidRoles == {"player", "wizard", "gm", "admin"}

CapWords == [GM |-> "gm", Wizard |-> "wizard"]

\* A faulty cmd_setrole: the role word is used as typed.
LowerWordKept(w) == w

LowerWord(w) == IF w \in DOMAIN CapWords THEN CapWords[w] ELSE w

Zed == <<"z", "e", "d">>

SetroleArgs ==
    { <<>>, <<Ari, "wizard">>, <<Ari, "GM">>, <<Eddie, "player">>,
      <<Ari, "king">>, <<Zed, "gm">> }

\* cmd_setrole
CmdSetrole(s, args) ==
    /\ CanRead(s)
    /\ budget' = [budget EXCEPT !.cmds = @ - 1]
    /\ IF RoleMissing(s)
       THEN Raise(s, "AttributeError", "setrole") /\ UNCHANGED player
       ELSE IF ~is_admin(s)
       THEN /\ Send(s, s, "rebuke", None, "setrole", "setrole", "loop_read")
            /\ UNCHANGED player
       ELSE IF Len(args) # 2
       THEN /\ Send(s, s, "usage", None, "setrole", "setrole", "loop_read")
            /\ UNCHANGED player
       ELSE IF LowerWord(args[2]) \notin ValidRoles
       THEN /\ Send(s, s, "invalid_role", None, "setrole", "setrole",
                    "loop_read")
            /\ UNCHANGED player
       ELSE IF Lower(args[1]) \notin Keys(players)
       THEN /\ Send(s, s, "no_such_player", None, "setrole", "setrole",
                    "loop_read")
            /\ UNCHANGED player
       ELSE /\ player' = [player EXCEPT
                            ![DictGet(players, Lower(args[1]))].role =
                                LowerWord(args[2])]
            /\ Send(s, s, "role_set", DictGet(players, Lower(args[1])),
                    "setrole", "setrole", "loop_read")
    /\ UNCHANGED <<players, sessions, npcs, npc, loc, failed, closed, tick,
                   eof>>

AddxpArgs == { <<>>, <<"abc">>, <<"0">>, <<"100">> }

\* int(args[0]) succeeds
IsIntToken(tok) == tok \in {"0", "100", "-5"}

\* cmd_addxp: Player has no xp attribute, so "player.xp += amount" raises.
CmdAddxp(s, args) ==
    /\ CanRead(s)
    /\ budget' = [budget EXCEPT !.cmds = @ - 1]
    /\ IF RoleMissing(s)
       THEN Raise(s, "AttributeError", "addxp")
       ELSE IF ~is_admin(s)
       THEN Send(s, s, "rebuke", None, "addxp", "addxp", "loop_read")
       ELSE IF args = <<>>
       THEN Send(s, s, "usage", None, "addxp", "addxp", "loop_read")
       ELSE IF ~IsIntToken(args[1])
       THEN Send(s, s, "xp_nan", None, "addxp", "addxp", "loop_read")
       ELSE Raise(s, "AttributeError", "addxp")
    /\ UNCHANGED <<players, sessions, npcs, npc, player, loc, failed,
                   closed, tick, eof>>

KillArgs ==
    { <<>>, <<"r", "a", "t">>, <<"G", "u">>, <<"z">>, <<"b", "a", "t">>,
      <<"g">> }

\* cmd_killnpc: "Try by id", else "prefix match on name"
FindNpc(arg) ==
    LET byId == SelectSeq(npcs, LAMBDA n : NpcDefs[n].idchars = arg)
        byName == SelectSeq(npcs,
                      LAMBDA n : StartsWith(Lower(NpcDefs[n].name), arg))
    IN  IF byId # <<>> THEN Head(byId)
        ELSE IF byName # <<>> THEN Head(byName)
        ELSE None

CmdKillnpc(s, args) ==
    /\ CanRead(s)
    /\ budget' = [budget EXCEPT !.cmds = @ - 1]
    /\ IF RoleMissing(s)
       THEN Raise(s, "AttributeError", "killnpc") /\ UNCHANGED loc
       ELSE IF ~is_admin(s)
       THEN /\ Send(s, s, "rebuke", None, "killnpc", "killnpc", "loop_read")
            /\ UNCHANGED loc
       ELSE IF args = <<>>
       THEN /\ Send(s, s, "usage", None, "killnpc", "killnpc", "loop_read")
            /\ UNCHANGED loc
       ELSE IF FindNpc(Lower(args)) = None
       THEN /\ Send(s, s, "no_npc", None, "killnpc", "killnpc", "loop_read")
            /\ UNCHANGED loc
       ELSE /\ SetLoc(s, [LocInit EXCEPT
                            !.target = FindNpc(Lower(args)),
                            !.snap = sessions_in_room(sessions, player,
                                       npc[FindNpc(Lower(args))].room_id)])
            /\ GotoCmd(s, "kill_loop", "killnpc")
    /\ UNCHANGED <<players, sessions, npcs, npc, player, failed, closed,
                   tick, eof>>

\* cmd_killnpc: the vanish notices, then world.npcs.pop and the report
KillLoop(s) ==
    /\ Run(s)
    /\ pc[s] = "kill_loop"
    /\ IF loc[s].snap # <<>>
       THEN /\ Send(s, Head(loc[s].snap), "vanishes", loc[s].target,
                    "killnpc", None, "kill_loop")
            /\ SetSnap(s, Tail(loc[s].snap))
            /\ UNCHANGED npcs
       ELSE /\ npcs' = SelectSeq(npcs, LAMBDA n : n # loc[s].target)
            /\ Send(s, s, "npc_removed", loc[s].target, "killnpc", None,
                    "loop_read")
            /\ SetLoc(s, LocInit)
    /\ UNCHANGED <<players, sessions, npc, player, failed, closed, tick,
                   eof, budget>>

\* ------------------------------------------------------------- teardown
\* writer.close() and the await of wait_closed()
CloseWriter(s) ==
    /\ closed' = [closed EXCEPT ![s] = TRUE]
    /\ pc' = [pc EXCEPT ![s] = "td_wait"]
    /\ cur' = None
    /\ ev' = NoEv(s)

\* handle(): entry of the finally block
Finally(s) ==
    /\ Run(s)
    /\ pc[s] = "finally"
    /\ IF player[s] # NoPlayer
       THEN /\ SetLoc(s, [LocInit EXCEPT
                            !.name = player[s].name,
                            !.snap = Others(sessions_in_room(sessions,
                                       player, room_id(player, s)), s)])
            /\ Goto(s, "td_leave")
            /\ UNCHANGED closed
       ELSE /\ CloseWriter(s)
            /\ SetLoc(s, LocInit)
    /\ UNCHANGED <<players, sessions, npcs, npc, player, failed, tick,
                   eof, budget>>

\* handle(): the departure notices, then remove_session, remove_player,
\* writer.close()
TdLeave(s) ==
    /\ Run(s)
    /\ pc[s] = "td_leave"
    /\ IF loc[s].snap # <<>>
       THEN /\ Send(s, Head(loc[s].snap), "leaves", s, "teardown", None,
                    "td_leave")
            /\ SetSnap(s, Tail(loc[s].snap))
            /\ UNCHANGED <<players, sessions, closed>>
       ELSE /\ sessions' = remove_session(sessions, player[s].name)
            /\ players' = remove_player(players, player[s].name)
            /\ CloseWriter(s)
            /\ SetLoc(s, LocInit)
    /\ UNCHANGED <<npcs, npc, player, failed, tick, eof, budget>>

\* wait_closed() returns and handle() ends.
TdDone(s) ==
    /\ Run(s)
    /\ pc[s] = "td_wait"
    /\ pc' = [pc EXCEPT ![s] = "done"]
    /\ cur' = None
    /\ ev' = NoEv(s)
    /\ UNCHANGED <<players, sessions, npcs, npc, player, loc, failed,
                   closed, tick, eof, budget>>

\* The protocol's connection_lost callback runs, between coroutine steps.
Fail(s) ==
    /\ cur = None
    /\ budget.fails > 0
    /\ pc[s] # "idle"
    /\ ~failed[s]
    /\ ~closed[s]
    /\ failed' = [failed EXCEPT ![s] = TRUE]
    /\ budget' = [budget EXCEPT !.fails = @ - 1]
    /\ ev' = NoEv("env")
    /\ UNCHANGED <<players, sessions, npcs, npc, player, pc, loc, closed,
                   tick, cur, eof>>

\* ------------------------------------------------------------- NPC tick
\* A faulty _npc_loop: an error of a pass ends the loop.
NpcLoopDies == [TickInit EXCEPT !.pc = "dead"]

\* _npc_loop: "except Exception as e: print(...)", then the sleep
NpcLoopCatch == TickInit

\* The tick sends one line to session `to`.
TickSend(to, kind, about, snap) ==
    \E r \in Outcomes(to) :
        /\ ev' = Ev(TickProc, to, kind, about, "npc", r, None)
        /\ cur' = None
        /\ tick' = IF r = "raised" THEN NpcLoopCatch
                   ELSE [tick EXCEPT !.snap = snap]

\* "continue" / return to the for loop of npc_tick
TickSkip(npc1) ==
    /\ npc' = npc1
    /\ tick' = [TickInit EXCEPT !.pc = "tick_npc", !.todo = Tail(tick.todo)]
    /\ cur' = TickProc
    /\ ev' = NoEv(TickProc)

\* A faulty _move_npc_to: the room id is set before the old room is told.
MoveNpcToMutatesFirst(n, dest, npc1) ==
    IF dest = npc1[n].room_id \/ ~RoomExists(dest)
    THEN TickSkip(npc1)
    ELSE /\ npc' = [npc1 EXCEPT ![n].room_id = dest]
         /\ tick' = [pc |-> "npc_leave", todo |-> Tail(tick.todo),
                     npc |-> n, dest |-> dest, old |-> npc1[n].room_id,
                     snap |-> sessions_in_room(sessions, player,
                                               npc1[n].room_id)]
         /\ cur' = TickProc
         /\ ev' = NoEv(TickProc)

\* _move_npc_to, up to the snapshot of the old room
MoveNpcTo(n, dest, npc1) ==
    IF dest = npc1[n].room_id \/ ~RoomExists(dest)
    THEN TickSkip(npc1)
    ELSE /\ npc' = npc1
         /\ tick' = [pc |-> "npc_leave", todo |-> Tail(tick.todo),
                     npc |-> n, dest |-> dest, old |-> npc1[n].room_id,
                     snap |-> sessions_in_room(sessions, player,
                                               npc1[n].room_id)]
         /\ cur' = TickProc
         /\ ev' = NoEv(TickProc)

\* _npc_move_along_path
NpcMoveAlongPath(n) ==
    LET path == NpcDefs[n].wander_path
        idx == IF npc[n].wander_index >= Len(path)
               THEN 0 ELSE npc[n].wander_index
    IN  IF path = <<>>
        THEN TickSkip(npc)
        ELSE MoveNpcTo(n, path[idx + 1],
                 [npc EXCEPT ![n].wander_index = (idx + 1) % Len(path)])

\* A faulty _npc_move_global: the destination is any room of the world.
NpcMoveGlobalAnywhere(n) ==
    \E dest \in Rooms \cup {"void"} : MoveNpcTo(n, dest, npc)

\* _npc_move_global: random.choice over the exits of the current room
NpcMoveGlobal(n) ==
    IF ~RoomExists(npc[n].room_id)
    THEN TickSkip(npc)
    ELSE IF DOMAIN RoomExits(npc[n].room_id) = {}
    THEN TickSkip(npc)
    ELSE \E d \in DOMAIN RoomExits(npc[n].room_id) :
            MoveNpcTo(n, RoomExits(npc[n].room_id)[d], npc)

\* _npc_loop wakes from its sleep; npc_tick snapshots world.npcs.
TickStart ==
    /\ cur = None
    /\ tick.pc = "sleeping"
    /\ budget.ticks # 0
    /\ budget' = [budget EXCEPT
                    !.ticks = IF @ = Unlimited THEN Unlimited ELSE @ - 1]
    /\ tick' = [TickInit EXCEPT !.pc = "tick_npc", !.todo = npcs]
    /\ cur' = TickProc
    /\ ev' = NoEv(TickProc)
    /\ UNCHANGED <<players, sessions, npcs, npc, player, pc, loc, failed,
                   closed, eof>>

\* npc_tick: one iteration of "for npc in npcs.values()"
TickNpc ==
    /\ Run(TickProc)
    /\ tick.pc = "tick_npc"
    /\ IF tick.todo = <<>>
       THEN /\ tick' = TickInit
            /\ cur' = None
            /\ ev' = NoEv(TickProc)
            /\ UNCHANGED npc
       ELSE LET n == Head(tick.todo) IN
            IF StaysPut(n)
            THEN TickSkip(npc)
            ELSE IF ModeOf(n) = "path"
            THEN NpcMoveAlongPath(n)
            ELSE IF ModeOf(n) = "global"
            THEN NpcMoveGlobal(n)
            ELSE TickSkip(npc)
    /\ UNCHANGED <<players, sessions, npcs, player, pc, loc, failed, closed,
                   eof, budget>>

\* _move_npc_to: "Notify old room sessions", then "npc.room_id = dest_id"
NpcLeave ==
    /\ Run(TickProc)
    /\ tick.pc = "npc_leave"
    /\ IF tick.snap # <<>>
       THEN /\ TickSend(Head(tick.snap), "leaves", tick.npc, Tail(tick.snap))
            /\ UNCHANGED npc
       ELSE /\ npc' = [npc EXCEPT ![tick.npc].room_id = tick.dest]
            /\ tick' = [tick EXCEPT
                          !.pc = "npc_enter",
                          !.snap = sessions_in_room(sessions, player,
                                                    tick.dest)]
            /\ cur' = TickProc
            /\ ev' = NoEv(TickProc)
    /\ UNCHANGED <<players, sessions, npcs, player, pc, loc, failed, closed,
                   eof, budget>>

\* _move_npc_to: "Notify new room sessions"
NpcEnter ==
    /\ Run(TickProc)
    /\ tick.pc = "npc_enter"
    /\ IF tick.snap # <<>>
       THEN TickSend(Head(tick.snap), "enters", tick.npc, Tail(tick.snap))
       ELSE /\ tick' = [TickInit EXCEPT !.pc = "tick_npc", !.todo = tick.todo]
            /\ cur' = TickProc
            /\ ev' = NoEv(TickProc)
    /\ UNCHANGED <<players, sessions, npcs, npc, player, pc, loc, failed,
                   closed, eof, budget>>

\* ------------------------------------------------------------- system
SessNext(s) ==
    \/ SelfLine(s)
    \/ NameEof(s)
    \/ \E raw \in RawNames : NameLine(s, raw)
    \/ ReadError(s)
    \/ LoginNotify(s)
    \/ QlName(s)
    \/ QlBrief(s)
    \/ QlOcc(s)
    \/ QlNpcs(s)
    \/ QlNpcLine(s)
    \/ QlExits(s)
    \/ QlExitLine(s)
    \/ LoopEof(s)
    \/ CmdEmpty(s)
    \/ \E verb \in DirVerbs : CmdMove(s, verb)
    \/ MvLeave(s)
    \/ MvEnter(s)
    \/ MvGo(s)
    \/ CmdQl(s)
    \/ \E verb \in {"stats", "Stats"} : CmdStats(s, verb)
    \/ CmdRole(s)
    \/ \E verb \in {"quit", "exit", "QUIT"} : CmdQuit(s, verb)
    \/ \E hasArgs \in BOOLEAN : CmdSay(s, hasArgs)
    \/ SayLoop(s)
    \/ CmdUnknown(s)
    \/ \E args \in SetroleArgs : CmdSetrole(s, args)
    \/ \E args \in AddxpArgs : CmdAddxp(s, args)
    \/ \E args \in KillArgs : CmdKillnpc(s, args)
    \/ KillLoop(s)
    \/ Finally(s)
    \/ TdLeave(s)
    \/ TdDone(s)

TickNext == TickStart \/ TickNpc \/ NpcLeave \/ NpcEnter

Next ==
    \/ \E s \in Sessions : SessNext(s)
    \/ TickNext
    \/ \E s \in Sessions : Fail(s)
    \/ \E s \in Sessions : Connect(s)

Spec == Init /\ [][Next]_vars

LiveSpec == LiveInit /\ [][Next]_vars

NpcSpec == NpcInit /\ [][Next]_vars

\* The event loop keeps running the coroutine that holds it until it
\* awaits, and the tick's sleep always ends; a client may stay silent.
Continue(s) == cur = s /\ SessNext(s)

FairSpec ==
    /\ LiveSpec
    /\ WF_vars(TickNext)
    /\ \A s \in Sessions : WF_vars(Continue(s))

\* A coroutine that is not waiting for its client is waiting for the event
\* loop only: the loop's ready queue is first in, first out, so it is run
\* again however often other coroutines take their turn. Nothing makes a
\* client type.
Resume(s) == pc[s] \notin {"idle", "name_read", "loop_read"} /\ SessNext(s)

StallSpec ==
    /\ StallInit /\ [][Next]_vars
    /\ SF_vars(TickNext)
    /\ \A s \in Sessions : SF_vars(Resume(s))

\* ============================================================= claims
Registered(s) == \E i \in DOMAIN sessions : sessions[i].v = s

HasPlayerEntry(s) == \E i \in DOMAIN players : players[i].v = s

Ended(s) == pc[s] \in {"done", "crashed"}

\* The direction a movement verb names.
DirectionNamed ==
    [north |-> "north", south |-> "south", east |-> "east",
     west |-> "west", up |-> "up", down |-> "down",
     n |-> "north", s |-> "south", e |-> "east",
     w |-> "west", u |-> "up", d |-> "down"]

AdminVerbs == {"setrole", "addxp", "killnpc"}

\* C1: whenever every coroutine is suspended (a state another session or
\* the tick can observe), World.players and World.sessions have the same
\* key set.
C1_LockstepKeys == cur = None => Keys(players) = Keys(sessions)

\* C1 witness: one session has logged in and been torn down while another
\* is still registered.
C1_Witness ==
    /\ cur = None
    /\ \E s, t \in Sessions :
          /\ pc[s] = "done" /\ player[s] # NoPlayer
          /\ Registered(t) /\ HasPlayerEntry(t)

\* C2: a leaves notice of a player move is sent while the mover is still in
\* the room it leaves and before any enters notice of that move; an enters
\* notice is sent when the mover is already in the destination; and neither
\* is ever addressed to the mover.
C2_MoveNoticeOrder ==
    (ev.cause = "move" /\ ev.kind \in {"leaves", "enters"}) =>
        /\ ev.to # ev.by
        /\ ev.about = ev.by
        /\ loc[ev.by].room # loc[ev.by].dest
        /\ ev.kind = "leaves" =>
              room_id(player, ev.by) = loc[ev.by].room
        /\ ev.kind = "enters" =>
              room_id(player, ev.by) = loc[ev.by].dest

\* C2 witness: a session that was told the mover leaves is then told, in the
\* same move, that the mover enters.
C2_Witness ==
    /\ ev.cause = "move" /\ ev.kind = "enters" /\ ev.res = "sent"
    /\ ev.to \in loc[ev.by].left

\* C3: a session that registered a player and has ended is no longer in the
\* registry and its transport has been released.
C3_TeardownCompletes ==
    \A s \in Sessions :
        (Ended(s) /\ player[s] # NoPlayer) =>
            /\ closed[s]
            /\ ~Registered(s)
            /\ ~HasPlayerEntry(s)

\* C4: a name typed at the prompt whose key is already registered is refused
\* with the "already in use" line, registers nothing and leads back to the
\* prompt; a name whose key is free registers the session under that key.
\* The test and the registration are one step.
C4_NameUnique ==
    [][\A s \in Sessions :
        (/\ pc[s] = "name_read"
         /\ pc'[s] # "name_read"
         /\ ev'.kind # "ConnectionResetError"
         /\ ~eof'[s]
         /\ loc'[s].name # <<>>)
        => IF Lower(loc'[s].name) \in Keys(players)
           THEN /\ players' = players
                /\ sessions' = sessions
                /\ player'[s] = NoPlayer
                /\ ev'.kind = "in_use"
                /\ ev'.to = s
                /\ ev'.res = "sent" => pc'[s] = "ask1"
           ELSE /\ player'[s].name = loc'[s].name
                /\ DictGet(players', Lower(loc'[s].name)) = s
                /\ DictGet(sessions', Lower(loc'[s].name)) = s
                /\ Keys(players') = Keys(players) \cup {Lower(loc'[s].name)}
      ]_vars

\* C4 witness: a session is refused a name that differs from the registered
\* one only by case and punctuation.
C4_Witness ==
    /\ ev.kind = "in_use" /\ ev.res = "sent"
    /\ \E t \in Sessions \ {ev.to} :
          /\ HasPlayerEntry(t)
          /\ player[t].name # loc[ev.to].name
          /\ Lower(player[t].name) = Lower(loc[ev.to].name)

\* C5: setrole, addxp or killnpc typed by a session whose player is not an
\* admin changes nothing in the registry, sends the caller a rebuke and
\* leaves the session in its command loop.
C5_PlayerVerbRebuked ==
    [][\A s \in Sessions :
        (/\ pc[s] = "loop_read"
         /\ ev'.by = s
         /\ ev'.cmd \in AdminVerbs
         /\ player[s].role # "admin"
         /\ ~failed[s])
        => /\ players' = players
           /\ sessions' = sessions
           /\ npcs' = npcs
           /\ npc' = npc
           /\ player' = player
           /\ ev'.kind = "rebuke"
           /\ ev'.to = s
           /\ pc'[s] = "loop_read"
      ]_vars

\* C6: when a send to another session fails, the sender carries on: a
\* session does not enter its teardown and the tick stays scheduled.
C6_SenderSurvives ==
    (ev.res = "raised" /\ ev.to \in Sessions /\ ev.to # ev.by) =>
        /\ ev.by \in Sessions => pc[ev.by] \notin {"finally", "crashed"}
        /\ ev.by = TickProc => tick.pc = "sleeping"

\* C7: a movement verb naming a direction for which the mover's room has no
\* exit changes nothing, sends the mover the one line "You can't go that
\* way." and leaves the session in its command loop.
C7_NoExitMove ==
    [][\A s \in Sessions :
        (/\ pc[s] = "loop_read"
         /\ ev'.by = s
         /\ ev'.cmd \in DOMAIN DirectionNamed
         /\ ~failed[s]
         /\ room_id(player, s) \in Rooms
         /\ DirectionNamed[ev'.cmd] \notin DOMAIN Exits[room_id(player, s)])
        => /\ players' = players
           /\ sessions' = sessions
           /\ npcs' = npcs
           /\ npc' = npc
           /\ player' = player
           /\ ev'.kind = "cant_go"
           /\ ev'.to = s
           /\ ev'.res = "sent"
           /\ pc'[s] = "loop_read"
           /\ cur' = None
           /\ closed' = closed
      ]_vars

\* C7 witness: a single-letter alias is refused in a room without that exit
\* while another session is registered.
C7_Witness ==
    /\ ev.kind = "cant_go" /\ ev.res = "sent" /\ ev.cmd = "d"
    /\ pc[ev.by] = "loop_read"
    /\ \E t \in Sessions \ {ev.by} : Registered(t)

\* C8: a movement verb whose exit leads to a room id that is not in the
\* registry changes nothing, sends the mover the dangling-exit line (not the
\* no-exit line), no notice to anyone, and leaves the session in its loop.
C8_DanglingExit ==
    [][\A s \in Sessions :
        (/\ pc[s] = "loop_read"
         /\ ev'.by = s
         /\ ev'.cmd \in DOMAIN DirectionNamed
         /\ ~failed[s]
         /\ room_id(player, s) \in Rooms
         /\ DirectionNamed[ev'.cmd] \in DOMAIN Exits[room_id(player, s)]
         /\ Exits[room_id(player, s)][DirectionNamed[ev'.cmd]] \notin Rooms)
        => /\ players' = players
           /\ sessions' = sessions
           /\ npcs' = npcs
           /\ npc' = npc
           /\ player' = player
           /\ ev'.kind = "resistance"
           /\ ev'.to = s
           /\ ev'.res = "sent"
           /\ pc'[s] = "loop_read"
           /\ cur' = None
      ]_vars

\* C8 witness: the dangling east exit of the lobby is tried while another
\* session is in the same room.
C8_Witness ==
    /\ ev.kind = "resistance" /\ ev.res = "sent"
    /\ room_id(player, ev.by) = "lobby"
    /\ \E t \in Sessions \ {ev.by} :
          Registered(t) /\ room_id(player, t) = "lobby"

\* C9: a successful move sets the mover's room id to the destination and
\* changes nothing else in the registry; from then on the move runs to its
\* end: every session of the arrival snapshot is sent the enters notice, the
\* mover is sent "You go <d>." and then the brief summary starts.
C9_MoveCompletes ==
    [][\A s \in Sessions :
        /\ (pc[s] = "mv_leave" /\ pc'[s] = "mv_enter") =>
              /\ player' = [player EXCEPT ![s].room_id = loc[s].dest]
              /\ players' = players
              /\ sessions' = sessions
              /\ npcs' = npcs
              /\ npc' = npc
        /\ (pc[s] \in {"mv_enter", "mv_go"} /\ ~failed[s]) =>
              pc'[s] \in {"mv_enter", "mv_go", "ql_name"}
        /\ (pc[s] = "mv_go" /\ pc'[s] = "ql_name") =>
              /\ ev'.kind = "you_go" /\ ev'.to = s
              /\ ev'.about = loc[s].direction
      ]_vars

\* C10: passes of npc_tick are started again and again, and after a pass
\* that raised an error a further pass is started.
C10_TickKeepsRunning ==
    /\ []<>(tick.pc = "tick_npc")
    /\ [](ev.by = TickProc /\ ev.res = "raised" => <>(tick.pc = "tick_npc"))

\* C10 witness: a pass has raised on a send to a failed session.
C10_Witness ==
    /\ ev.by = TickProc /\ ev.res = "raised"
    /\ failed[ev.to]

\* The NPCs the definitions tether, and those whose wander mode is none.
TetheredNpcs == {n \in NpcIds : NpcDefs[n].tethered}

ModeNoneNpcs == {n \in NpcIds : NpcDefs[n].wander_mode \in {"none", "NONE"}}

\* C11: a tethered NPC, whatever its wander mode and path, and an NPC with
\* wander mode none keep the room id and the wander cursor they were loaded
\* with, in every reachable state and after any number of ticks.
C11_TetheredStays ==
    \A n \in TetheredNpcs \cup ModeNoneNpcs :
        npc[n] = [room_id |-> NpcDefs[n].room, wander_index |-> 0]

\* C11 witness: two passes have moved the rat and the ghost along their paths
\* while the tethered guard, which has a path, and the idol are where they
\* were loaded.
C11_Witness ==
    /\ tick.pc = "sleeping"
    /\ npc["rat"].room_id = "cellar"
    /\ npc["ghost"].room_id = "hall"
    /\ NpcDefs["guard"].wander_path # <<>>
    /\ npc["guard"].room_id = "hall"
    /\ npc["idol"].room_id = "cellar"

\* The passes of npc_tick started so far under NpcInit.
PassesStarted == MaxPasses - budget.ticks

\* The untethered NPCs that walk a path of existing rooms.
PathWalkers ==
    {n \in NpcIds \ TetheredNpcs :
        /\ NpcDefs[n].wander_mode \in {"path", "Path"}
        /\ NpcDefs[n].wander_path # <<>>
        /\ \A i \in DOMAIN NpcDefs[n].wander_path :
              NpcDefs[n].wander_path[i] \in Rooms}

InRegistry(n) == \E i \in DOMAIN npcs : npcs[i] = n

\* C12: after the k-th pass of the tick an untethered NPC with wander mode
\* path and a path of n existing rooms is in path[(k-1) mod n].
C12_PathWalk ==
    \A n \in PathWalkers :
        (tick.pc = "sleeping" /\ PassesStarted >= 1 /\ InRegistry(n)) =>
            npc[n].room_id =
                NpcDefs[n].wander_path[
                    ((PassesStarted - 1) % Len(NpcDefs[n].wander_path)) + 1]

\* A pass has wrapped the rat's cursor: it is back in the last room of its
\* path after the third pass and in the first after the fourth.
C12_Wrapped ==
    /\ tick.pc = "sleeping"
    /\ PassesStarted = 4
    /\ npc["rat"].room_id = "hall"
    /\ npc["rat"].wander_index = 1

NpcNotice(kind) == ev'.by = TickProc /\ ev'.kind = kind

\* C13 as stated: every notice of an NPC move, departure or arrival, is sent
\* while the NPC's room id is still the old room (the room id is mutated
\* only after both kinds of notices).
C13_MutateLast ==
    [][(NpcNotice("leaves") \/ NpcNotice("enters")) =>
            npc[tick.npc].room_id = tick.old]_vars

\* C13 amended: the departure notices are sent while the NPC's room id is
\* the old room, the room id is set once the departure snapshot is used up,
\* and the arrival notices are sent when it is already the destination.
C13_NpcNoticeOrder ==
    [][/\ NpcNotice("leaves") =>
            /\ tick.pc = "npc_leave"
            /\ ev'.about = tick.npc
            /\ npc' = npc
            /\ npc[tick.npc].room_id = tick.old
       /\ NpcNotice("enters") =>
            /\ tick.pc = "npc_enter"
            /\ ev'.about = tick.npc
            /\ npc' = npc
            /\ npc[tick.npc].room_id = tick.dest
            /\ tick.dest # tick.old
       /\ \A n \in NpcIds :
            npc'[n].room_id # npc[n].room_id =>
                /\ tick.pc = "npc_leave"
                /\ tick.snap = <<>>
                /\ tick'.pc = "npc_enter"
                /\ n = tick.npc
                /\ npc[n].room_id = tick.old
                /\ npc'[n].room_id = tick.dest
      ]_vars

\* C13 witness: a session has been sent the arrival notice of an NPC that is
\* now in the session's room.
C13_Witness ==
    /\ ev.by = TickProc /\ ev.kind = "enters" /\ ev.res = "sent"
    /\ npc[ev.about].room_id = room_id(player, ev.to)
    /\ player[ev.to] # NoPlayer

\* The untethered NPCs that walk a path, and those that wander globally.
PathNpcs ==
    {n \in NpcIds \ TetheredNpcs :
        /\ NpcDefs[n].wander_mode \in {"path", "Path"}
        /\ NpcDefs[n].wander_path # <<>>}

GlobalNpcs ==
    {n \in NpcIds \ TetheredNpcs : NpcDefs[n].wander_mode = "global"}

\* The path entry under the cursor of n.
PathTarget(n) ==
    LET path == NpcDefs[n].wander_path
        i == npc[n].wander_index
    IN  path[(IF i >= Len(path) THEN 0 ELSE i) + 1]

\* The tick drops the move of n and goes on with the rest of the pass.
Discarded(n) ==
    /\ npc'[n].room_id = npc[n].room_id
    /\ \A o \in NpcIds \ {n} : npc'[o] = npc[o]
    /\ ev' = NoEv(TickProc)
    /\ tick'.pc = "tick_npc"
    /\ tick'.todo = Tail(tick.todo)
    /\ cur' = TickProc

\* C14: when the tick resolves the destination of an NPC to a room id that
\* is not in the registry (a path entry, or the exit chosen in its room), the
\* NPC stays where it is, nothing is sent, nothing is raised and the pass
\* goes on with the remaining NPCs; a move is only ever started towards an
\* existing room.
C14_DanglingNpcMove ==
    [][(tick.pc = "tick_npc" /\ tick.todo # <<>> /\ tick' # tick) =>
        LET n == Head(tick.todo) IN
        /\ (n \in PathNpcs /\ PathTarget(n) \notin Rooms) => Discarded(n)
        /\ (n \in GlobalNpcs /\ tick'.pc # "npc_leave") => Discarded(n)
        /\ tick'.pc = "npc_leave" => tick'.dest \in Rooms
      ]_vars

\* C14 witness: the ghost's path entry "void" has been dropped in the third
\* pass, the ghost is where it was, and the bat is still to be processed.
C14_Witness ==
    /\ tick.pc = "tick_npc"
    /\ tick.todo = <<"bat", "mole", "wisp">>
    /\ cur = TickProc
    /\ PassesStarted = 3
    /\ npc["ghost"].wander_index = 1
    /\ npc["ghost"].room_id = "hall"

\* The verbs for which the dispatcher tells handle() to close.
CloseVerbs == {"quit", "exit", "QUIT"}

TornDown(s) == pc[s] \in {"finally", "td_leave", "td_wait", "done", "crashed"}

\* C15: a command line whose verb is not quit or exit never ends the command
\* loop of the session that typed it, and an unknown verb changes nothing in
\* the registry and sends the caller the one "not understood" line.
C15_OnlyQuitCloses ==
    [][\A s \in Sessions :
        (/\ pc[s] = "loop_read"
         /\ ev'.by = s
         /\ ev'.cmd \notin CloseVerbs \cup {None, "eof"}
         /\ ~failed[s])
        => /\ ~TornDown(s)'
           /\ ev'.cmd = "xyzzy" =>
                /\ players' = players
                /\ sessions' = sessions
                /\ npcs' = npcs
                /\ npc' = npc
                /\ player' = player
                /\ ev'.kind = "mutter"
                /\ ev'.to = s
                /\ pc'[s] = "loop_read"
      ]_vars

\* The role a role word names, whatever its letter case.
RoleNamed == [player |-> "player", wizard |-> "wizard", gm |-> "gm",
              admin |-> "admin", GM |-> "gm", Wizard |-> "wizard"]

\* The registered players whose name is `name` up to letter case.
NamedPlayers(name) ==
    {t \in Sessions : HasPlayerEntry(t) /\ Lower(player[t].name) = Lower(name)}

\* C16: an admin's setrole <name> <role> with a valid role and the name of a
\* registered player (in any letter case) sets that player's role to the
\* lowercased role, changes nothing else in the registry, and confirms to
\* the caller.
C16_SetroleSucceeds ==
    [][\A s \in Sessions, args \in SetroleArgs :
        (/\ CmdSetrole(s, args)
         /\ is_admin(s)
         /\ Len(args) = 2
         /\ args[2] \in DOMAIN RoleNamed
         /\ NamedPlayers(args[1]) # {})
        => \A t \in NamedPlayers(args[1]) :
             /\ player' = [player EXCEPT ![t].role = RoleNamed[args[2]]]
             /\ players' = players
             /\ sessions' = sessions
             /\ npcs' = npcs
             /\ npc' = npc
             /\ ev'.kind = "role_set"
             /\ ev'.to = s
             /\ ev'.about = t
             /\ pc'[s] = "loop_read"
      ]_vars

\* An admin has just given another player the role typed as "GM".
C16_Witness ==
    \E s, t \in Sessions :
        /\ s # t
        /\ ev.by = s
        /\ ev.kind = "role_set"
        /\ ev.about = t
        /\ Lower(player[t].name) = Lower(Ari)
        /\ player[t].role = "gm"

\* The setrole argument lists that must be refused: not two words, a role
\* word that names no role, or a name no registered player bears.
Refused(args) ==
    \/ Len(args) # 2
    \/ args[2] \notin DOMAIN RoleNamed
    \/ NamedPlayers(args[1]) = {}

\* C17: an admin's setrole with an invalid role, an unregistered target or
\* an argument count other than two changes no player's role, sends the
\* caller one error or usage line, and leaves the caller in the command loop.
C17_SetroleRefused ==
    [][\A s \in Sessions, args \in SetroleArgs :
        (CmdSetrole(s, args) /\ is_admin(s) /\ Refused(args))
        => /\ player' = player
           /\ players' = players
           /\ ev'.kind \in {"usage", "invalid_role", "no_such_player"}
           /\ ev'.to = s
           /\ ev'.res = "sent"
           /\ pc'[s] = "loop_read"
           /\ ~closed'[s]
      ]_vars

\* An admin has just been told that the role word names no role, and
\* another player is registered.
C17_Witness ==
    \E s, t \in Sessions :
        /\ s # t
        /\ HasPlayerEntry(t)
        /\ is_admin(s)
        /\ ev.by = s
        /\ ev.kind = "invalid_role"
        /\ pc[s] = "loop_read"

\* C18: an admin's addxp <amount> with an integer amount is carried out:
\* the experience is granted, the levels due are applied, and the caller,
\* still in its command loop, is sent the line that reports its level
\* (with amount 0, the unchanged level).
C18_AddxpGrants ==
    [][\A s \in Sessions, args \in AddxpArgs :
        (/\ CmdAddxp(s, args)
         /\ is_admin(s)
         /\ args # <<>>
         /\ IsIntToken(args[1]))
        => /\ ev'.kind = "xp_report"
           /\ ev'.to = s
           /\ pc'[s] = "loop_read"
      ]_vars

\* An admin's addxp has just raised AttributeError.
C18_Witness ==
    \E s \in Sessions :
        /\ player[s].role = "admin"
        /\ ev.by = s
        /\ ev.cmd = "addxp"
        /\ ev.kind = "AttributeError"
        /\ TornDown(s)

\* The NPC that killnpc <arg> is to remove: the one whose id is the
\* lowercased argument, else the first in registry order whose lowercased
\* name starts with it, else none.
KillTarget(arg) ==
    LET a == Lower(arg)
        ids == {i \in DOMAIN npcs : NpcDefs[npcs[i]].idchars = a}
        named == {i \in DOMAIN npcs :
                    StartsWith(Lower(NpcDefs[npcs[i]].name), a)}
        First(S) == npcs[CHOOSE i \in S : \A j \in S : i <= j]
    IN  IF ids # {} THEN First(ids)
        ELSE IF named # {} THEN First(named)
        ELSE None

\* C19: an admin's killnpc <arg> picks the target by id, else by name
\* prefix; with a target, every step of the command either delivers one
\* disappearance notice while the NPC is still registered, or removes
\* exactly that NPC and reports to the caller, who stays in the command
\* loop; with no target the NPC set is unchanged and the caller is told so.
\* (A caller whose own transport has failed is not covered.)
C19_KillCompletes ==
    [][\A s \in Sessions :
        /\ \A args \in KillArgs :
             (CmdKillnpc(s, args) /\ is_admin(s) /\ args # <<>>)
             => /\ npcs' = npcs
                /\ IF KillTarget(args) = None
                   THEN /\ ev'.kind = "no_npc"
                        /\ ev'.to = s
                        /\ pc'[s] = "loop_read"
                   ELSE /\ pc'[s] = "kill_loop"
                        /\ loc'[s].target = KillTarget(args)
        /\ (pc[s] = "kill_loop" /\ ev'.by = s /\ ~failed[s])
           => \/ /\ ev'.kind = "vanishes"
                 /\ ev'.res # "raised"
                 /\ \E i \in DOMAIN npcs : npcs[i] = loc[s].target
                 /\ npcs' = npcs
                 /\ pc'[s] = "kill_loop"
              \/ /\ ev'.kind = "npc_removed"
                 /\ ev'.to = s
                 /\ ev'.res # "raised"
                 /\ npcs' = SelectSeq(npcs, LAMBDA n : n # loc[s].target)
                 /\ pc'[s] = "loop_read"
      ]_vars

\* A disappearance notice has just raised in the admin's command: the NPC
\* is still registered and the admin's session is being torn down.
C19_Witness ==
    \E s \in Sessions :
        /\ ev.by = s
        /\ ev.kind = "vanishes"
        /\ ev.res = "raised"
        /\ ev.to # s
        /\ \E i \in DOMAIN npcs : npcs[i] = ev.about
        /\ TornDown(s)

\* C20: once the name is settled the Player and Session are registered,
\* then each step of the login is one "enters the room." notice to another
\* session standing in the lobby, until the notices are through and the
\* welcome lines and the brief summary follow; the new session gets no
\* notice about itself, and nobody outside the lobby gets one.
C20_LoginSequence ==
    [][\A s \in Sessions :
        /\ (pc[s] = "name_read" /\ player'[s] # NoPlayer)
           => /\ Registered(s)' /\ HasPlayerEntry(s)'
              /\ player'[s].room_id = "lobby"
              /\ pc'[s] = "login_notify"
        /\ (pc[s] = "login_notify" /\ pc'[s] # "login_notify")
           => pc'[s] = "welcome1"
        /\ (pc[s] = "login_notify" /\ ev'.by = s)
           => /\ ev'.kind = "enters"
              /\ ev'.about = s
              /\ ev'.to # s
              /\ room_id(player, ev'.to) = "lobby"
              /\ Registered(s)
        /\ (ev'.by = s /\ ev'.kind = "welcome")
           => pc[s] = "welcome1" /\ loc[s].snap = <<>>
      ]_vars

\* An arrival notice of a login has just raised: the new session is
\* registered, is being torn down, and was never welcomed.
C20_Witness ==
    \E s \in Sessions :
        /\ ev.by = s
        /\ ev.cause = "login"
        /\ ev.kind = "enters"
        /\ ev.res = "raised"
        /\ Registered(s)
        /\ TornDown(s)

\* C21: the teardown of a session with a player sends, step by step, one
\* "leaves the room." notice to each other session of its snapshot while
\* its registry entries are still in place, then removes its Session and
\* Player entries and releases the transport; no notice goes to the
\* departing session itself.
C21_TeardownSequence ==
    [][\A s \in Sessions :
        /\ (pc[s] = "td_leave" /\ ev'.by = s)
           => /\ ev'.kind = "leaves"
              /\ ev'.about = s
              /\ ev'.to # s
              /\ players' = players
              /\ sessions' = sessions
              /\ ~closed'[s]
        /\ (pc[s] = "td_leave" /\ pc'[s] # "td_leave")
           => /\ loc[s].snap = <<>>
              /\ pc'[s] = "td_wait"
              /\ ~Registered(s)'
              /\ ~HasPlayerEntry(s)'
              /\ closed'[s]
      ]_vars

\* A departure notice has just raised in the finally block: the session has
\* ended with its entries still registered and its transport not released.
C21_Witness ==
    \E s \in Sessions :
        /\ ev.by = s
        /\ ev.cause = "teardown"
        /\ ev.kind = "leaves"
        /\ ev.res = "raised"
        /\ pc[s] = "crashed"
        /\ Registered(s)
        /\ ~closed[s]

\* A session waiting for a line of its client, and a session in the middle
\* of its login, a command or its teardown.
Parked(s) == pc[s] \in {"name_read", "loop_read"}

Pending(s) == pc[s] \notin {"idle", "name_read", "loop_read", "done", "crashed"}

ExitValues(r) ==
    IF r \in Rooms THEN {Exits[r][d] : d \in DOMAIN Exits[r]} ELSE {}

\* C23: the room id of an untethered global NPC only ever changes to an
\* existing room that the exit table of its room names; and when the tick
\* comes to such an NPC whose room has no exits or is not in the registry,
\* the NPC stays, nothing is sent and the pass goes on.
C23_GlobalWander ==
    [][\A n \in GlobalNpcs :
        /\ npc'[n].room_id # npc[n].room_id
           => /\ npc'[n].room_id \in ExitValues(npc[n].room_id)
              /\ npc'[n].room_id \in Rooms
              /\ tick.npc = n /\ tick.old = npc[n].room_id
        /\ (/\ tick.pc = "tick_npc" /\ tick' # tick
            /\ tick.todo # <<>> /\ Head(tick.todo) = n)
           => /\ ExitValues(npc[n].room_id) = {} => Discarded(n)
              /\ tick'.pc = "npc_leave"
                 => /\ tick'.dest \in ExitValues(npc[n].room_id)
                    /\ tick'.dest \in Rooms
      ]_vars

\* The bat has been moved from the hall through the hall's one exit, in a
\* pass that had to leave the mole (no exits) and the wisp (no room) alone.
C23_Witness ==
    /\ tick.pc = "npc_enter"
    /\ tick.npc = "bat"
    /\ tick.old = "hall"
    /\ npc["bat"].room_id = "lobby"
    /\ tick.todo = <<"mole", "wisp">>

\* A session whose player is registered and whose teardown has not begun.
Live(s) == player[s] # NoPlayer /\ ~TornDown(s)

\* C24: every live session is the one stored in World.sessions under its
\* lowercased player name, and its player is the one stored in
\* World.players under that key.
C24_OwnEntries ==
    \A s \in Sessions :
        Live(s) =>
            /\ Lower(player[s].name) \in Keys(sessions)
            /\ Lower(player[s].name) \in Keys(players)
            /\ DictGet(sessions, Lower(player[s].name)) = s
            /\ DictGet(players, Lower(player[s].name)) = s

\* Two live sessions bear the same name: the entries of the first have been
\* overwritten by the login of the second.
C24_Witness ==
    \E s, t \in Sessions :
        /\ s # t
        /\ Live(s) /\ Live(t)
        /\ Lower(player[s].name) = Lower(player[t].name)
        /\ ~Registered(s)

\* The teardown of s has removed its entries and released its transport.
Released(s) == closed[s] /\ pc[s] \in {"td_wait", "done"}

\* C25: no step writes a line to a session whose teardown has removed it
\* from the registry and released its transport.
C25_NoWriteAfterRelease ==
    ev.to \in Sessions => ~Released(ev.to)

\* A notify loop that was suspended in an earlier send has just written to
\* a session of its snapshot that was torn down in the meantime.
C25_Witness ==
    /\ ev.to \in Sessions
    /\ ev.by # ev.to
    /\ ev.kind \in {"says", "vanishes", "leaves", "enters"}
    /\ Released(ev.to)
    /\ ~Registered(ev.to)
    /\ ~HasPlayerEntry(ev.to)

\* C26: an NPC that killnpc has deleted from the registry keeps its room id
\* for good, and the tick sends no leaves or enters notice about it.
C26_DeletedNpcRests ==
    [][\A n \in NpcIds :
        ~InRegistry(n) =>
            /\ npc'[n].room_id = npc[n].room_id
            /\ ~(/\ ev'.by = TickProc
                 /\ ev'.about = n
                 /\ ev'.kind \in {"leaves", "enters"})
      ]_vars

\* The tick has told a session that an NPC enters its room although killnpc
\* had deleted that NPC earlier in the same pass.
C26_Witness ==
    /\ ev.by = TickProc
    /\ ev.kind = "enters"
    /\ ev.res = "sent"
    /\ ~InRegistry(ev.about)
    /\ npc[ev.about].room_id # NpcDefs[ev.about].room

\* C27: the room id of every player is the starting room or the id of a
\* room of the registry.
C27_PlayerRoomExists ==
    \A s \in Sessions :
        player[s] # NoPlayer => player[s].room_id \in {"lobby"} \cup Rooms

\* One player has moved to the hall, and another has just been refused at
\* the lobby's exit to a room that does not exist.
C27_Witness ==
    \E s, t \in Sessions :
        /\ s # t
        /\ player[s] # NoPlayer /\ player[s].room_id = "hall"
        /\ ev.by = t /\ ev.kind = "resistance"
        /\ player[t].room_id = "lobby"

\* The registered sessions that stand in room r.
Occupants(r) == {t \in Sessions : Registered(t) /\ room_id(player, t) = r}

SeqRange(q) == {q[i] : i \in DOMAIN q}

\* C28: a say command changes nothing in the registry; the sessions it is
\* going to address are exactly the registered sessions in the speaker's
\* room when the command starts, and each of its lines goes to the next of
\* them: "You say:" to the speaker, "<name> says:" to anyone else. So a
\* session that is elsewhere when the command starts is sent nothing by it.
C28_SayStaysInRoom ==
    [][\A s \in Sessions :
        /\ (pc[s] = "loop_read" /\ ev'.by = s /\ ev'.cmd = "say")
           => /\ <<players, sessions, npcs, npc, player>>' =
                    <<players, sessions, npcs, npc, player>>
              /\ \/ ev'.kind = "say_what" /\ ev'.to = s
                 \/ /\ pc'[s] = "say_loop"
                    /\ SeqRange(loc'[s].snap) = Occupants(room_id(player, s))
                    /\ ev'.to = None
        /\ (pc[s] = "say_loop" /\ (pc'[s] # pc[s] \/ ev'.by = s))
           => /\ <<players, sessions, npcs, npc, player>>' =
                    <<players, sessions, npcs, npc, player>>
              /\ IF loc[s].snap = <<>>
                 THEN ev'.to = None
                 ELSE /\ ev'.to = Head(loc[s].snap)
                      /\ ev'.kind = (IF ev'.to = s THEN "you_say" ELSE "says")
                      /\ ev'.about = s
                      /\ SeqRange(loc'[s].snap) \subseteq SeqRange(loc[s].snap)
                      /\ Len(loc'[s].snap) < Len(loc[s].snap)
      ]_vars

\* A speaker has been sent its own "You say:" line as the last line of the
\* command, while the other player stands in another room.
C28_Witness ==
    \E s, t \in Sessions :
        /\ s # t
        /\ ev.by = s /\ ev.kind = "you_say" /\ ev.res = "sent"
        /\ pc[s] = "say_loop" /\ loc[s].snap = <<>>
        /\ Registered(t)
        /\ room_id(player, t) # room_id(player, s)

====
